---- MODULE Spec2Model ----
(***************************************************************************)
(* Model of the image summarization workflow orchestrator                  *)
(* (src/src/workflow.py, ImageSummarizer.process_images) together with the *)
(* provider contract it drives (src/src/interfaces.py and the concrete     *)
(* describe_images_batch / summarize implementations).                     *)
(*                                                                         *)
(* One behaviour is one process_images call.  The coroutine runs           *)
(* atomically between its two await points (the describer call of a batch  *)
(* and the summarizer call), so each await is split into a call step and   *)
(* a return-or-raise step.                                                 *)
(***************************************************************************)
EXTENDS Integers, Sequences, FiniteSets, TLC

\* ---------------------------------------------------------------- bounds
MaxPaths == 3
MaxBatchSize == 3
\* the longest input list of each of two concurrent calls
MaxConcurrentPaths == 2

\* The path strings a caller may pass; which of them exist on disk is part
\* of the initial state.
Paths == {"img1.jpg", "img2.jpg", "img3.jpg"}

\* workflow.batch_size comes straight from the YAML document, unvalidated:
\* it may be absent, zero or negative.
BatchSizes == (0 - 1)..MaxBatchSize

\* config.workflow restricted to its 'batch_size' key: <<>> when the key is
\* absent, <<b>> when it is set to b
Workflows == {<<>>} \cup {<<b>> : b \in BatchSizes}

\* Python's None
None == "<None>"

\* config.workflow.get('batch_size', 3)
DefaultBatchSize == 3

\* ---------------------------------------------------------------- fixed texts
NoValidSummary == "No valid images found to process."
NoValidError == "No valid image files found"
NoSuccessSummary == "No images could be processed successfully."
WorkflowError == "Workflow error"
SummaryErrorText == "Error creating summary"
DescriptionText == "description"
DescribeErrorText == "Error describing image"

\* What a summarizer may return: a synthesized text, an empty text (a model
\* that generates nothing after stripping), or its fail-soft error string.
SummaryTexts == {"summary", "", SummaryErrorText}

\* ---------------------------------------------------------------- helpers
Min(a, b) == IF a < b THEN a ELSE b

RECURSIVE Flatten(_)
Flatten(ss) == IF ss = <<>> THEN <<>> ELSE Head(ss) \o Flatten(Tail(ss))

SeqsUpTo(S, n) == UNION {[1..k -> S] : k \in 0..n}

\* ---------------------------------------------------------------- result types
\* interfaces.ImageDescription
ImageDescription(path, text, ok, err) ==
  [image_path |-> path, description |-> text, success |-> ok, error_message |-> err]

\* interfaces.SummaryResult
SummaryResult(s, ds, total, succ, failed, err, meta) ==
  [summary |-> s, descriptions |-> ds, total_images |-> total,
   successful_descriptions |-> succ, failed_images |-> failed,
   error_message |-> err, metadata |-> meta]

\* ---------------------------------------------------------------- provider contract
\* describe_image of the concrete providers: a success record carrying the
\* generated text, or a failure record with an empty description; both carry
\* the path they were asked about.
DescribeImage(path, ok) ==
  IF ok THEN ImageDescription(path, DescriptionText, TRUE, None)
        ELSE ImageDescription(path, "", FALSE, DescribeErrorText)

\* describe_images_batch of the concrete providers: one describe_image per
\* path, results appended in input order.  oks[j] is the outcome of the j-th
\* image of the batch.
DescribeImagesBatch(batch, oks) ==
  [j \in 1..Len(batch) |-> DescribeImage(batch[j], oks[j])]

\* ---------------------------------------------------------------- process_images, pure parts
\* (mutation: the existence check is skipped)
ValidPaths_NoCheck(paths, ex) == paths

\* valid_paths: paths for which Path(path).exists(), in input order
ValidPaths(paths, ex) == SelectSeq(paths, LAMBDA p : p \in ex)

\* invalid_paths: the others, in input order
InvalidPaths(paths, ex) == SelectSeq(paths, LAMBDA p : p \notin ex)

\* batch_size = self.config.workflow.get('batch_size', 3)
GetBatchSize(wf) == IF wf = <<>> THEN DefaultBatchSize ELSE wf[1]

\* range(0, n, step) still has the index idx to deliver
RangeHas(idx, n, step) == IF step > 0 THEN idx < n ELSE idx > n

\* (mutation: the slice runs one element too far)
Batch_Overlap(valid, idx, bs) == SubSeq(valid, idx + 1, Min(idx + bs + 1, Len(valid)))

\* valid_paths[i:i + batch_size] for a positive batch_size (0-based i)
Batch(valid, idx, bs) == SubSeq(valid, idx + 1, Min(idx + bs, Len(valid)))

\* (mutation: the success flag is not tested)
Successes_All(rs) == rs

\* the for-loop over batch_results: successes, in record order
Successes(rs) == SelectSeq(rs, LAMBDA r : r.success)

\* the for-loop over batch_results: paths of the failure records, in record order
RECURSIVE FailedPathsOf(_)
FailedPathsOf(rs) ==
  IF rs = <<>> THEN <<>>
  ELSE (IF Head(rs).success THEN <<>> ELSE <<Head(rs).image_path>>)
         \o FailedPathsOf(Tail(rs))

\* description_texts = [desc.description for desc in all_descriptions]
DescriptionTexts(ds) == [j \in 1..Len(ds) |-> ds[j].description]

\* (mutation: the failure list starts empty)
SeedFailedImages_Empty(invalid) == <<>>

\* failed_images = list(invalid_paths)
SeedFailedImages(invalid) == invalid

\* (mutation: only an empty failure list is reported)
ShortCircuitResult_NoFailed(paths) ==
  SummaryResult(NoValidSummary, <<>>, Len(paths), 0, <<>>, NoValidError, None)

\* (mutation: the short-circuit leaves the summary empty)
ShortCircuitResult_EmptySummary(paths) ==
  SummaryResult("", <<>>, Len(paths), 0, paths, NoValidError, None)

\* the result of the empty-valid short-circuit
ShortCircuitResult(paths) ==
  SummaryResult(NoValidSummary, <<>>, Len(paths), 0, paths, NoValidError, None)

\* (mutation: a run without any success is reported as a whole-call error)
NormalResult_ErrorWhenEmpty(s, ds, paths, failed, bs) ==
  SummaryResult(s, ds, Len(paths), Len(ds), failed,
                IF ds = <<>> THEN WorkflowError ELSE None, [batch_size |-> bs])

\* the result of the normal path; of the metadata only batch_size varies
\* within a call (the provider name is fixed at construction)
NormalResult(s, ds, paths, failed, bs) ==
  SummaryResult(s, ds, Len(paths), Len(ds), failed, None, [batch_size |-> bs])

\* ---------------------------------------------------------------- state
VARIABLES
  image_paths,        \* the argument of process_images
  existing,           \* the paths that exist when the call validates them
  workflow,           \* config.workflow
  pc,                 \* where the coroutine is
  valid_paths, invalid_paths, batch_size, i,
  all_descriptions, failed_images,
  result,             \* the returned SummaryResult, meaningful once pc = "done"
  describer_calls,    \* the batches passed to describe_images_batch, in call order
  describer_records,  \* the records the describer returned, in return order
  summarizer_calls,   \* the description lists passed to summarize, in call order
  raised,             \* who raised the exception the except branch caught
  concurrent,         \* the frames of the calls running concurrently on one instance
  path_status,        \* what the file system and a deterministic describer make of a path
  config,             \* the Config object handed to ImageSummarizer(config)
  ctor_fails,         \* the roles whose concrete provider constructor raises
  summarizer,         \* the ImageSummarizer object (or the failed construction)
  info,               \* what the last get_info() returned
  reassigned,         \* the caller has changed the object or its config since construction
  provider,           \* the call of a concrete provider's method that is followed
  manager,            \* a model manager class and the threads constructing it
  cli,                \* the run of the command line's main()
  loading             \* the run of load_config on a configuration file

vars == <<image_paths, existing, workflow, pc, valid_paths,
          invalid_paths, batch_size, i, all_descriptions, failed_images,
          result, describer_calls, describer_records, summarizer_calls, raised,
          concurrent, path_status, config, ctor_fails, summarizer, info, reassigned,
          provider, manager, cli, loading>>

locals == <<valid_paths, invalid_paths, batch_size, i, all_descriptions, failed_images>>
\* the state outside the single call followed by Spec
object == <<config, ctor_fails, summarizer, info, reassigned>>
\* the state of the parts that no ImageSummarizer method touches
apart == <<manager, cli, loading>>
elsewhere == <<concurrent, path_status, object, provider, apart>>
\* what a call never writes: its argument, the file system, the
\* configuration and the state outside the call
inputs == <<image_paths, existing, workflow, elsewhere>>
calls == <<describer_calls, describer_records, summarizer_calls>>

\* (mutation: the except branch reports the progress made so far)
ErrorResult_Partial(paths) ==
  SummaryResult("", all_descriptions, Len(paths), Len(all_descriptions),
                failed_images, WorkflowError, None)

\* the result built by the except branch
ErrorResult(paths) ==
  SummaryResult("", <<>>, IF paths # <<>> THEN Len(paths) ELSE 0, 0,
                IF paths # <<>> THEN paths ELSE <<>>, WorkflowError, None)

\* construction and get_info are not followed
NoObject ==
  /\ config = None
  /\ ctor_fails = {}
  /\ summarizer = None
  /\ info = None
  /\ reassigned = FALSE

\* no method of a concrete provider is followed
NoProviderCall == provider = None

\* no model manager is followed
NoManager == manager = None

\* no run of the command line is followed
NoCli == cli = None

\* no run of load_config is followed
NoLoading == loading = None

NothingApart == NoManager /\ NoCli /\ NoLoading

\* no process_images call is followed
NoCall ==
  /\ image_paths = <<>>
  /\ existing = {}
  /\ workflow = <<>>
  /\ pc = "idle"
  /\ valid_paths = <<>>
  /\ invalid_paths = <<>>
  /\ batch_size = 0
  /\ i = 0
  /\ all_descriptions = <<>>
  /\ failed_images = <<>>
  /\ result = None
  /\ describer_calls = <<>>
  /\ describer_records = <<>>
  /\ summarizer_calls = <<>>
  /\ raised = None
  /\ concurrent = <<>>
  /\ path_status = <<>>

\* no concurrent calls
Quiet ==
  /\ concurrent = <<>>
  /\ path_status = <<>>
  /\ NoObject
  /\ NoProviderCall
  /\ NothingApart

Init ==
  /\ Quiet
  /\ image_paths \in SeqsUpTo(Paths, MaxPaths)
  /\ existing \in SUBSET Paths
  /\ workflow \in Workflows
  /\ pc = "start"
  /\ valid_paths = <<>>
  /\ invalid_paths = <<>>
  /\ batch_size = 0
  /\ i = 0
  /\ all_descriptions = <<>>
  /\ failed_images = <<>>
  /\ result = None
  /\ describer_calls = <<>>
  /\ describer_records = <<>>
  /\ summarizer_calls = <<>>
  /\ raised = None

\* ---------------------------------------------------------------- actions
\* (mutation: an empty list is not short-circuited; it falls through the
\* loop to the normal result)
ValidateNoneValid_EmptyFallsThrough ==
  /\ pc = "start"
  /\ ValidPaths(image_paths, existing) = <<>>
  /\ valid_paths' = ValidPaths(image_paths, existing)
  /\ invalid_paths' = InvalidPaths(image_paths, existing)
  /\ result' = IF image_paths = <<>>
                 THEN NormalResult(NoSuccessSummary, <<>>, image_paths, <<>>,
                                   GetBatchSize(workflow))
                 ELSE ShortCircuitResult(image_paths)
  /\ pc' = "done"
  /\ UNCHANGED <<inputs, batch_size, i, all_descriptions, failed_images, calls, raised>>

\* Path validation and the empty-valid short-circuit.
ValidateNoneValid ==
  /\ pc = "start"
  /\ ValidPaths(image_paths, existing) = <<>>
  /\ valid_paths' = ValidPaths(image_paths, existing)
  /\ invalid_paths' = InvalidPaths(image_paths, existing)
  /\ result' = ShortCircuitResult(image_paths)
  /\ pc' = "done"
  /\ UNCHANGED <<inputs, batch_size, i, all_descriptions, failed_images, calls, raised>>

\* Path validation with at least one valid path, up to the head of the batch
\* loop.  range(0, n, 0) raises ValueError, which the except branch catches.
ValidateSomeValid ==
  /\ pc = "start"
  /\ ValidPaths(image_paths, existing) # <<>>
  /\ valid_paths' = ValidPaths(image_paths, existing)
  /\ invalid_paths' = InvalidPaths(image_paths, existing)
  /\ batch_size' = GetBatchSize(workflow)
  /\ all_descriptions' = <<>>
  /\ failed_images' = SeedFailedImages(InvalidPaths(image_paths, existing))
  /\ i' = 0
  /\ IF GetBatchSize(workflow) = 0
       THEN /\ raised' = "range"
            /\ result' = ErrorResult(image_paths)
            /\ pc' = "done"
       ELSE /\ pc' = "loop"
            /\ UNCHANGED <<raised, result>>
  /\ UNCHANGED <<inputs, calls>>

\* The loop delivers the next index: the batch is sliced and handed to the
\* describer; the coroutine waits for it.
DescribeCall ==
  /\ pc = "loop"
  /\ RangeHas(i, Len(valid_paths), batch_size)
  /\ describer_calls' = Append(describer_calls, Batch(valid_paths, i, batch_size))
  /\ pc' = "describing"
  /\ UNCHANGED <<inputs, locals, result, describer_records, summarizer_calls, raised>>

\* (mutation: a batch with a failure record is submitted again)
DescribeReturn_Retry ==
  /\ pc = "describing"
  /\ \E oks \in [1..Len(describer_calls[Len(describer_calls)]) -> BOOLEAN] :
       LET batch_results == DescribeImagesBatch(describer_calls[Len(describer_calls)], oks)
       IN /\ all_descriptions' = all_descriptions \o Successes(batch_results)
          /\ failed_images' = failed_images \o FailedPathsOf(batch_results)
          /\ describer_records' = describer_records \o batch_results
          /\ i' = IF FailedPathsOf(batch_results) # <<>> THEN i ELSE i + batch_size
  /\ pc' = "loop"
  /\ UNCHANGED <<inputs, valid_paths, invalid_paths, batch_size, result,
                 describer_calls, summarizer_calls, raised>>

\* (mutation: the loop index advances by one path, not by one batch)
DescribeReturn_StepOne ==
  /\ pc = "describing"
  /\ \E oks \in [1..Len(describer_calls[Len(describer_calls)]) -> BOOLEAN] :
       LET batch_results == DescribeImagesBatch(describer_calls[Len(describer_calls)], oks)
       IN /\ all_descriptions' = all_descriptions \o Successes(batch_results)
          /\ failed_images' = failed_images \o FailedPathsOf(batch_results)
          /\ describer_records' = describer_records \o batch_results
  /\ i' = i + 1
  /\ pc' = "loop"
  /\ UNCHANGED <<inputs, valid_paths, invalid_paths, batch_size, result,
                 describer_calls, summarizer_calls, raised>>

\* The describer returns its records; they are sorted into all_descriptions
\* and failed_images and the loop index advances.
DescribeReturn ==
  /\ pc = "describing"
  /\ \E oks \in [1..Len(describer_calls[Len(describer_calls)]) -> BOOLEAN] :
       LET batch_results == DescribeImagesBatch(describer_calls[Len(describer_calls)], oks)
       IN /\ all_descriptions' = all_descriptions \o Successes(batch_results)
          /\ failed_images' = failed_images \o FailedPathsOf(batch_results)
          /\ describer_records' = describer_records \o batch_results
  /\ i' = i + batch_size
  /\ pc' = "loop"
  /\ UNCHANGED <<inputs, valid_paths, invalid_paths, batch_size, result,
                 describer_calls, summarizer_calls, raised>>

\* The describer raises instead of returning: the except branch builds the
\* error result.
DescribeRaise ==
  /\ pc = "describing"
  /\ raised' = "describer"
  /\ result' = ErrorResult(image_paths)
  /\ pc' = "done"
  /\ UNCHANGED <<inputs, locals, calls>>

\* (mutation: summarize starts as soon as one description succeeded)
SummarizeCall_Early ==
  /\ pc = "loop"
  /\ all_descriptions # <<>>
  /\ summarizer_calls' = Append(summarizer_calls, DescriptionTexts(all_descriptions))
  /\ pc' = "summarizing"
  /\ UNCHANGED <<inputs, locals, result, describer_calls, describer_records, raised>>

\* (mutation: summarize is called whether or not a description succeeded)
SummarizeCall_Always ==
  /\ pc = "loop"
  /\ ~RangeHas(i, Len(valid_paths), batch_size)
  /\ summarizer_calls' = Append(summarizer_calls, DescriptionTexts(all_descriptions))
  /\ pc' = "summarizing"
  /\ UNCHANGED <<inputs, locals, result, describer_calls, describer_records, raised>>

\* The loop is exhausted and there are successful descriptions: summarize.
SummarizeCall ==
  /\ pc = "loop"
  /\ ~RangeHas(i, Len(valid_paths), batch_size)
  /\ all_descriptions # <<>>
  /\ summarizer_calls' = Append(summarizer_calls, DescriptionTexts(all_descriptions))
  /\ pc' = "summarizing"
  /\ UNCHANGED <<inputs, locals, result, describer_calls, describer_records, raised>>

\* The loop is exhausted without any successful description.
ReturnNoDescriptions ==
  /\ pc = "loop"
  /\ ~RangeHas(i, Len(valid_paths), batch_size)
  /\ all_descriptions = <<>>
  /\ result' = NormalResult(NoSuccessSummary, all_descriptions, image_paths,
                            failed_images, batch_size)
  /\ pc' = "done"
  /\ UNCHANGED <<inputs, locals, calls, raised>>

\* The summarizer returns a text (possibly its fail-soft error string).
SummarizeReturn ==
  /\ pc = "summarizing"
  /\ \E s \in SummaryTexts :
       result' = NormalResult(s, all_descriptions, image_paths, failed_images, batch_size)
  /\ pc' = "done"
  /\ UNCHANGED <<inputs, locals, calls, raised>>

\* The summarizer raises.
SummarizeRaise ==
  /\ pc = "summarizing"
  /\ raised' = "summarizer"
  /\ result' = ErrorResult(image_paths)
  /\ pc' = "done"
  /\ UNCHANGED <<inputs, locals, calls>>

Next ==
  \/ ValidateNoneValid
  \/ ValidateSomeValid
  \/ DescribeCall
  \/ DescribeReturn
  \/ DescribeRaise
  \/ SummarizeCall
  \/ ReturnNoDescriptions
  \/ SummarizeReturn
  \/ SummarizeRaise

Spec == Init /\ [][Next]_vars

\* The call under the scheduling the event loop gives it: the coroutine is
\* resumed whenever it can go on, and every awaited describer or summarizer
\* call returns or raises.
SpecFair == Init /\ [][Next]_vars /\ WF_vars(Next)

\* ---------------------------------------------------------------- concurrent calls
(***************************************************************************)
(* Two process_images calls on one ImageSummarizer instance, as the HTTP   *)
(* front end issues them (one event loop per request).  Each call owns its *)
(* frame of local variables; the instance contributes the configuration   *)
(* and the providers, which process_images only reads.  The providers are  *)
(* stateless and deterministic: what the describer makes of a path is      *)
(* fixed by path_status, and the summarizer returns one fixed text.        *)
(***************************************************************************)
ConcurrentCalls == 1..2
ConcurrentPaths == {"img1.jpg", "img2.jpg"}
PathStatuses == {"missing", "fails", "ok"}

\* the frame of a call that has not run yet
StartFrame(paths) ==
  [image_paths |-> paths, pc |-> "start", valid_paths |-> <<>>,
   invalid_paths |-> <<>>, batch_size |-> 0, i |-> 0,
   all_descriptions |-> <<>>, failed_images |-> <<>>,
   pending |-> <<>>, result |-> None, overlapped |-> FALSE]

\* Path(path).exists() for every path
ExistingFiles == {p \in DOMAIN path_status : path_status[p] # "missing"}

\* describe_images_batch of a deterministic describer
DeterministicDescriber(batch) ==
  DescribeImagesBatch(batch, [j \in 1..Len(batch) |-> path_status[batch[j]] = "ok"])

\* summarize of a deterministic summarizer
DeterministicSummarizer(texts) == "summary"

\* One step of a call, from one await point to the next, on its own frame.
FrameStep(f) ==
  CASE f.pc = "start" ->
         LET valid == ValidPaths(f.image_paths, ExistingFiles)
             invalid == InvalidPaths(f.image_paths, ExistingFiles)
         IN IF valid = <<>>
              THEN [f EXCEPT !.valid_paths = valid, !.invalid_paths = invalid,
                             !.result = ShortCircuitResult(f.image_paths),
                             !.pc = "done"]
              ELSE IF GetBatchSize(workflow) = 0
                THEN [f EXCEPT !.valid_paths = valid, !.invalid_paths = invalid,
                               !.failed_images = SeedFailedImages(invalid),
                               !.result = ErrorResult(f.image_paths),
                               !.pc = "done"]
                ELSE [f EXCEPT !.valid_paths = valid, !.invalid_paths = invalid,
                               !.batch_size = GetBatchSize(workflow),
                               !.failed_images = SeedFailedImages(invalid),
                               !.pc = "loop"]
    [] f.pc = "loop" ->
         IF RangeHas(f.i, Len(f.valid_paths), f.batch_size)
           THEN [f EXCEPT !.pending = Batch(f.valid_paths, f.i, f.batch_size),
                          !.pc = "describing"]
           ELSE IF f.all_descriptions # <<>>
             THEN [f EXCEPT !.pc = "summarizing"]
             ELSE [f EXCEPT !.result = NormalResult(NoSuccessSummary, f.all_descriptions,
                                         f.image_paths, f.failed_images, f.batch_size),
                            !.pc = "done"]
    [] f.pc = "describing" ->
         LET batch_results == DeterministicDescriber(f.pending)
         IN [f EXCEPT !.all_descriptions = @ \o Successes(batch_results),
                      !.failed_images = @ \o FailedPathsOf(batch_results),
                      !.i = @ + f.batch_size,
                      !.pending = <<>>,
                      !.pc = "loop"]
    [] f.pc = "summarizing" ->
         [f EXCEPT !.result = NormalResult(
                       DeterministicSummarizer(DescriptionTexts(f.all_descriptions)),
                       f.all_descriptions, f.image_paths, f.failed_images, f.batch_size),
                   !.pc = "done"]
    [] OTHER -> f

\* the call run to completion with no other call around
RECURSIVE RunAlone(_)
RunAlone(f) == IF f.pc = "done" THEN f.result ELSE RunAlone(FrameStep(f))

\* some other call is between its first step and its return
OthersInFlight(c) ==
  \E d \in ConcurrentCalls \ {c} : concurrent[d].pc \notin {"start", "done"}

\* (mutation: the accumulating list is an attribute of the instance, so the
\* records of one call also reach the calls that are collecting)
ConcurrentStep_SharedList(c) ==
  /\ concurrent[c].pc # "done"
  /\ concurrent' =
       [d \in ConcurrentCalls |->
          IF d = c
            THEN [FrameStep(concurrent[c]) EXCEPT !.overlapped = @ \/ OthersInFlight(c)]
            ELSE IF concurrent[c].pc = "describing" /\ concurrent[d].pc \in {"loop", "describing"}
              THEN [concurrent[d] EXCEPT !.all_descriptions =
                      @ \o Successes(DeterministicDescriber(concurrent[c].pending))]
              ELSE concurrent[d]]
  /\ UNCHANGED <<image_paths, existing, workflow, pc, locals, result, calls, raised,
                 path_status, object, provider, apart>>

\* Call c runs up to its next await point (or returns); the other call
\* stays where it is.
ConcurrentStep(c) ==
  /\ concurrent[c].pc # "done"
  /\ concurrent' =
       [concurrent EXCEPT ![c] =
          [FrameStep(concurrent[c]) EXCEPT !.overlapped = @ \/ OthersInFlight(c)]]
  /\ UNCHANGED <<image_paths, existing, workflow, pc, locals, result, calls, raised,
                 path_status, object, provider, apart>>

InitConcurrent ==
  /\ workflow \in Workflows
  /\ path_status \in [ConcurrentPaths -> PathStatuses]
  /\ concurrent \in [ConcurrentCalls ->
                       {StartFrame(ps) : ps \in SeqsUpTo(ConcurrentPaths, MaxConcurrentPaths)}]
  /\ image_paths = <<>>
  /\ existing = {}
  /\ pc = "idle"
  /\ valid_paths = <<>>
  /\ invalid_paths = <<>>
  /\ batch_size = 0
  /\ i = 0
  /\ all_descriptions = <<>>
  /\ failed_images = <<>>
  /\ result = None
  /\ describer_calls = <<>>
  /\ describer_records = <<>>
  /\ summarizer_calls = <<>>
  /\ raised = None
  /\ NoObject
  /\ NoProviderCall
  /\ NothingApart

NextConcurrent == \E c \in ConcurrentCalls : ConcurrentStep(c)

SpecConcurrent == InitConcurrent /\ [][NextConcurrent]_vars

\* ================================================================ construction and get_info
\* the closed set of provider names the factory knows
ProviderNames == {"bedrock", "azure_openai", "openai", "llava", "falcon"}
\* a name outside the closed set
OtherName == "not_a_provider"
ConfigNames == ProviderNames \cup {OtherName}
ModelNames == {"model-a", "model-b"}
\* an attribute that is not there
Missing == "<missing>"
Roles == {"image_describer", "text_summarizer"}
\* how many providers a configuration holds at most
MaxConfigured == 2

\* a ProviderConfig, reduced to the model_name of its two models
ProviderConfig(im, tm) == [image_model |-> im, text_model |-> tm]
ProviderConfigs == {ProviderConfig(im, tm) : im \in ModelNames, tm \in ModelNames}
ProviderDicts ==
  UNION {[D -> ProviderConfigs] :
           D \in {S \in SUBSET ConfigNames : Cardinality(S) <= MaxConfigured}}
Configs == [default_provider : ConfigNames, providers : ProviderDicts]

\* what a factory method does: it raises, or it returns the object it made
Raise(e, called) == [raised |-> e, made |-> Missing, model |-> Missing, called |-> called]
Made(name, model) == [raised |-> None, made |-> name, model |-> model, called |-> TRUE]

\* ProviderFactory.create_image_describer / create_text_summarizer: the
\* lookup in config.providers comes first, then the chain over the closed
\* set, whose concrete constructor may raise.
CreateProvider(role, attr, provider_name, cfg, fails) ==
  IF provider_name \notin DOMAIN cfg.providers THEN Raise("KeyError", FALSE)
  ELSE IF provider_name \in ProviderNames
    THEN IF role \in fails
           THEN Raise("ProviderError", TRUE)
           ELSE Made(provider_name, cfg.providers[provider_name][attr])
    ELSE Raise("ValueError", FALSE)

CreateImageDescriber(provider_name, cfg, fails) ==
  CreateProvider("image_describer", "image_model", provider_name, cfg, fails)

CreateTextSummarizer(provider_name, cfg, fails) ==
  CreateProvider("text_summarizer", "text_model", provider_name, cfg, fails)

\* no ImageSummarizer object: before construction (raised = None) or after a
\* construction that raised e; constructor_calls are the concrete
\* constructors that were entered
NoImageSummarizer(e, constructor_calls) ==
  [constructed |-> FALSE, raised |-> e, constructor_calls |-> constructor_calls]

\* (mutation: __init__ swallows the factory's exception and the object is
\* left without its providers)
NewImageSummarizer_Swallow(cfg, fails) ==
  LET d == CreateImageDescriber(cfg.default_provider, cfg, fails)
      t == CreateTextSummarizer(cfg.default_provider, cfg, fails)
  IN  [constructed |-> TRUE, raised |-> None,
       constructor_calls |-> (IF d.called THEN <<"image_describer">> ELSE <<>>)
                               \o (IF t.called THEN <<"text_summarizer">> ELSE <<>>),
       provider_name |-> cfg.default_provider,
       image_provider |-> cfg.default_provider,
       text_provider |-> cfg.default_provider,
       image_describer |-> d, text_summarizer |-> t]

\* (mutation: the describer and the summarizer are built from
\* config.image_provider and config.text_provider when these are set)
NewImageSummarizer_Split(cfg, fails) ==
  LET image_provider == IF cfg.image_provider # None THEN cfg.image_provider
                                                      ELSE cfg.default_provider
      text_provider == IF cfg.text_provider # None THEN cfg.text_provider
                                                    ELSE cfg.default_provider
      d == CreateImageDescriber(image_provider, cfg, fails)
      t == CreateTextSummarizer(text_provider, cfg, fails)
      dcall == IF d.called THEN <<"image_describer">> ELSE <<>>
      tcall == IF t.called THEN <<"text_summarizer">> ELSE <<>>
  IN  IF d.raised # None THEN NoImageSummarizer(d.raised, dcall)
      ELSE IF t.raised # None THEN NoImageSummarizer(t.raised, dcall \o tcall)
      ELSE [constructed |-> TRUE, raised |-> None,
            constructor_calls |-> dcall \o tcall,
            provider_name |-> cfg.default_provider,
            image_provider |-> image_provider,
            text_provider |-> text_provider,
            image_describer |-> d, text_summarizer |-> t]

\* ImageSummarizer.__init__: nothing is caught, so the first exception of
\* the two factory calls ends the construction.
NewImageSummarizer(cfg, fails) ==
  LET d == CreateImageDescriber(cfg.default_provider, cfg, fails)
      t == CreateTextSummarizer(cfg.default_provider, cfg, fails)
      dcall == IF d.called THEN <<"image_describer">> ELSE <<>>
      tcall == IF t.called THEN <<"text_summarizer">> ELSE <<>>
  IN  IF d.raised # None THEN NoImageSummarizer(d.raised, dcall)
      ELSE IF t.raised # None THEN NoImageSummarizer(t.raised, dcall \o tcall)
      ELSE [constructed |-> TRUE, raised |-> None,
            constructor_calls |-> dcall \o tcall,
            provider_name |-> cfg.default_provider,
            image_provider |-> cfg.default_provider,
            text_provider |-> cfg.default_provider,
            image_describer |-> d, text_summarizer |-> t]

ConfigurationError == "Configuration Error"
ProviderConfigurationError == "Provider configuration error"
Unknown == "unknown"

\* getattr(self, attr, default), then the replacement of None
ProviderAttribute(self, attr) ==
  IF self[attr] \in {Missing, None} THEN self.provider_name ELSE self[attr]

\* the lookups of get_info's try block raise KeyError or AttributeError
LookupFails(self, cfg) ==
  LET image_provider == ProviderAttribute(self, "image_provider")
      text_provider == ProviderAttribute(self, "text_provider")
  IN  \/ image_provider \notin DOMAIN cfg.providers
      \/ text_provider \notin DOMAIN cfg.providers
      \/ cfg.providers[image_provider].image_model = Missing
      \/ cfg.providers[text_provider].text_model = Missing

\* the record of get_info's except branch
InfoFallback(self, cfg, settings) ==
  [provider |-> self.provider_name,
   image_provider |-> IF self.image_provider = Missing THEN Unknown ELSE self.image_provider,
   text_provider |-> IF self.text_provider = Missing THEN Unknown ELSE self.text_provider,
   image_model |-> ConfigurationError,
   text_model |-> ConfigurationError,
   workflow_settings |-> settings,
   error |-> ProviderConfigurationError]

\* (mutation: memory_efficient looks at the providers only)
InfoRecord_ProvidersOnly(self, cfg, settings) ==
  LET image_provider == ProviderAttribute(self, "image_provider")
      text_provider == ProviderAttribute(self, "text_provider")
      image_model == cfg.providers[image_provider].image_model
      text_model == cfg.providers[text_provider].text_model
  IN  [provider |-> self.provider_name,
       image_provider |-> image_provider,
       text_provider |-> text_provider,
       image_model |-> image_model,
       text_model |-> text_model,
       workflow_settings |-> settings,
       optimization |->
         [single_provider |-> image_provider = text_provider,
          models_shared |-> image_model = text_model,
          memory_efficient |-> image_provider = text_provider]]

\* the record of get_info's try block
InfoRecord(self, cfg, settings) ==
  LET image_provider == ProviderAttribute(self, "image_provider")
      text_provider == ProviderAttribute(self, "text_provider")
      image_model == cfg.providers[image_provider].image_model
      text_model == cfg.providers[text_provider].text_model
  IN  [provider |-> self.provider_name,
       image_provider |-> image_provider,
       text_provider |-> text_provider,
       image_model |-> image_model,
       text_model |-> text_model,
       workflow_settings |-> settings,
       optimization |->
         [single_provider |-> image_provider = text_provider,
          models_shared |-> image_model = text_model,
          memory_efficient |-> image_provider = text_provider /\ image_model = text_model]]

\* (mutation: the except branch is not there; a failed lookup leaves get_info
\* with the exception)
get_info_NoFallback(self, cfg, settings) ==
  IF LookupFails(self, cfg)
    THEN [raised |-> "KeyError"]
    ELSE InfoRecord(self, cfg, settings)

\* ImageSummarizer.get_info
get_info(self, cfg, settings) ==
  IF LookupFails(self, cfg)
    THEN InfoFallback(self, cfg, settings)
    ELSE InfoRecord(self, cfg, settings)

\* ---------------------------------------------------------------- actions
\* the calls of process_images, which this part does not follow
process == <<image_paths, existing, workflow, pc, locals, result, calls, raised,
             concurrent, path_status, provider, apart>>

\* ImageSummarizer(config)
Construct ==
  /\ ~summarizer.constructed
  /\ summarizer.raised = None
  /\ summarizer' = NewImageSummarizer(config, ctor_fails)
  /\ UNCHANGED <<config, ctor_fails, info, reassigned, process>>

\* summarizer.get_info()
GetInfoCall ==
  /\ summarizer.constructed
  /\ info' = <<get_info(summarizer, config, workflow)>>
  /\ UNCHANGED <<config, ctor_fails, summarizer, reassigned, process>>

\* The caller assigns (or deletes) one of the two provider attributes the
\* constructor set on the object.
SetProviderAttribute ==
  /\ summarizer.constructed
  /\ ~reassigned
  /\ \E attr \in {"image_provider", "text_provider"} :
       \E v \in ConfigNames \cup {None, Missing} :
         /\ v # summarizer[attr]
         /\ summarizer' = [summarizer EXCEPT ![attr] = v]
  /\ reassigned' = TRUE
  /\ UNCHANGED <<config, ctor_fails, info, process>>

\* The caller, who holds the same Config object, removes a provider entry.
RemoveProviderEntry ==
  /\ summarizer.constructed
  /\ ~reassigned
  /\ \E n \in DOMAIN config.providers :
       config' = [config EXCEPT !.providers =
                    [m \in DOMAIN config.providers \ {n} |-> config.providers[m]]]
  /\ reassigned' = TRUE
  /\ UNCHANGED <<ctor_fails, summarizer, info, process>>

\* The caller clears one model of a provider entry, so that its model_name
\* is no longer an attribute.
ClearProviderModel ==
  /\ summarizer.constructed
  /\ ~reassigned
  /\ \E n \in DOMAIN config.providers :
       \E attr \in {"image_model", "text_model"} :
         config' = [config EXCEPT !.providers[n][attr] = Missing]
  /\ reassigned' = TRUE
  /\ UNCHANGED <<ctor_fails, summarizer, info, process>>

InitObject ==
  /\ config \in Configs
  /\ ctor_fails \in SUBSET Roles
  /\ summarizer = NoImageSummarizer(None, <<>>)
  /\ info = <<>>
  /\ reassigned = FALSE
  /\ workflow \in {<<>>, <<2>>}
  /\ concurrent = <<>>
  /\ path_status = <<>>
  /\ image_paths = <<>>
  /\ existing = {}
  /\ pc = "idle"
  /\ valid_paths = <<>>
  /\ invalid_paths = <<>>
  /\ batch_size = 0
  /\ i = 0
  /\ all_descriptions = <<>>
  /\ failed_images = <<>>
  /\ result = None
  /\ describer_calls = <<>>
  /\ describer_records = <<>>
  /\ summarizer_calls = <<>>
  /\ raised = None
  /\ NoProviderCall
  /\ NothingApart

NextObject ==
  \/ Construct
  \/ GetInfoCall
  \/ SetProviderAttribute
  \/ RemoveProviderEntry
  \/ ClearProviderModel

SpecObject == InitObject /\ [][NextObject]_vars

\* ================================================================ the concrete providers
\* Texts the providers build are sequences of pieces, the pieces of an
\* f-string in their order; "" is <<>>.
FileNotFoundText == "Image file not found"
BedrockErrorText == "AWS Bedrock error"
ResultText == "<str(result)>"

\* what the call of the API or of the local model inside describe_image does
DescribeOutcomes(name) ==
  {"text", "exception"}
    \cup (IF name = "bedrock" THEN {"client_error"} ELSE {"no_text"})
    \cup (IF name = "falcon" THEN {"not_list"} ELSE {})

\* what the call of the API or of the local model inside summarize does
SummarizeOutcomes(name, use_llava) ==
  {"text", "exception"}
    \cup (IF name = "llava" /\ use_llava THEN {} ELSE {"no_text", "not_list"})

\* a method returns v, or raises e
Returns(v) == [raised |-> None, value |-> v]
Raises(e) == [raised |-> e, value |-> None]

\* the error_message of the except branches of describe_image
DescribeErrorMessage(name, outcome) ==
  IF outcome = "client_error" THEN BedrockErrorText
  ELSE CASE name = "llava" -> "Error describing image with LLaVA"
         [] name = "falcon" -> "Error describing image with Falcon"
         [] OTHER -> DescribeErrorText

\* (mutation: the except branch is not there, the exception of the API call
\* leaves describe_image)
describe_image_NoCatch(name, image_path, ex, outcome) ==
  IF image_path \notin ex
    THEN Returns(ImageDescription(image_path, "", FALSE, FileNotFoundText))
  ELSE IF outcome \in {"exception", "client_error"}
    THEN Raises(outcome)
  ELSE Returns(ImageDescription(image_path, DescriptionText, TRUE, None))

\* describe_image of the five providers: the whole body is inside try; the
\* file is looked for first, then the image is read and the API or model
\* called.  A response without text is a success record: message.content
\* None for OpenAI and Azure, '' for LLaVA and Falcon; Falcon takes
\* str(result) from a result that is no non-empty list.
describe_image(name, image_path, ex, outcome) ==
  IF image_path \notin ex
    THEN Returns(ImageDescription(image_path, "", FALSE, FileNotFoundText))
  ELSE CASE outcome \in {"exception", "client_error"} ->
              Returns(ImageDescription(image_path, "", FALSE,
                                       DescribeErrorMessage(name, outcome)))
         [] outcome = "no_text" ->
              Returns(ImageDescription(image_path,
                                       IF name \in {"openai", "azure_openai"} THEN None ELSE "",
                                       TRUE, None))
         [] outcome = "not_list" ->
              Returns(ImageDescription(image_path, ResultText, TRUE, None))
         [] OTHER ->
              Returns(ImageDescription(image_path, DescriptionText, TRUE, None))

\* f"Error creating summary: {e}", for Falcon
\* f"Error creating summary with Falcon AI: {e}"
ErrorString(name, e) ==
  IF name = "falcon"
    THEN <<SummaryErrorText, " with Falcon AI", ": ", e>>
    ELSE <<SummaryErrorText, ": ", e>>

\* (mutation: the except branch is not there)
summarize_NoCatch(name, use_llava, descriptions, outcome) ==
  IF outcome = "text" THEN Returns(<<"summary">>) ELSE Raises(outcome)

\* summarize of the five providers: the whole body is inside try.  A
\* response without the text, or of another shape, makes the parsing of
\* Bedrock raise; OpenAI and Azure return message.content, which is None
\* without text, and raise on choices[0] without choices; the pipeline of
\* LLaVA and Falcon gives '' for a result without summary_text and
\* str(result) for a result that is no non-empty list.
summarize(name, use_llava, descriptions, outcome) ==
  CASE outcome = "text" -> Returns(<<"summary">>)
    [] outcome = "exception" -> Returns(ErrorString(name, "exception"))
    [] outcome = "no_text" ->
         IF name = "bedrock" THEN Returns(ErrorString(name, "KeyError"))
         ELSE IF name \in {"openai", "azure_openai"} THEN Returns(<<None>>)
         ELSE Returns(<<>>)
    [] outcome = "not_list" ->
         IF name \in {"bedrock", "openai", "azure_openai"}
           THEN Returns(ErrorString(name, "IndexError"))
           ELSE Returns(<<ResultText>>)

\* ---------------------------------------------------------------- calls of a concrete provider
Methods == {"describe_images_batch", "summarize"}

\* the frame of a call: its arguments, what it has collected, what the
\* API or model did on each request, and how it ended
ProviderCall(name, use_llava, method, paths, descs) ==
  [name |-> name, use_llava |-> use_llava, method |-> method, pc |-> "called",
   image_paths |-> paths, results |-> <<>>, descriptions |-> descs,
   summary |-> <<>>, events |-> <<>>, raised |-> None]

\* what this part leaves alone
others == <<image_paths, workflow, pc, locals, result, calls, raised,
            concurrent, path_status, object, apart>>

\* (mutation: a record of a failure is not appended)
DescribeImagesBatchStep_DropFailed ==
  /\ provider.method = "describe_images_batch"
  /\ provider.pc = "called"
  /\ Len(provider.events) < Len(provider.image_paths)
  /\ LET image_path == provider.image_paths[Len(provider.events) + 1] IN
       \E outcome \in DescribeOutcomes(provider.name) :
         LET r == describe_image(provider.name, image_path, existing, outcome)
             event == IF image_path \in existing THEN outcome ELSE "missing"
         IN  provider' = [provider EXCEPT
                            !.results = IF r.value.success THEN Append(@, r.value) ELSE @,
                            !.events = Append(@, event)]
  /\ UNCHANGED <<existing, others>>

\* One turn of the loop of describe_images_batch: describe_image for the
\* next path, its record appended; an exception of describe_image would
\* leave the loop.
DescribeImagesBatchStep ==
  /\ provider.method = "describe_images_batch"
  /\ provider.pc = "called"
  /\ Len(provider.events) < Len(provider.image_paths)
  /\ LET image_path == provider.image_paths[Len(provider.events) + 1] IN
       \E outcome \in DescribeOutcomes(provider.name) :
         LET r == describe_image(provider.name, image_path, existing, outcome)
             event == IF image_path \in existing THEN outcome ELSE "missing"
         IN  provider' =
               IF r.raised # None
                 THEN [provider EXCEPT !.pc = "raised", !.raised = r.raised,
                                       !.events = Append(@, event)]
                 ELSE [provider EXCEPT !.results = Append(@, r.value),
                                       !.events = Append(@, event)]
  /\ UNCHANGED <<existing, others>>

\* describe_images_batch returns results
DescribeImagesBatchReturn ==
  /\ provider.method = "describe_images_batch"
  /\ provider.pc = "called"
  /\ Len(provider.events) = Len(provider.image_paths)
  /\ provider' = [provider EXCEPT !.pc = "returned"]
  /\ UNCHANGED <<existing, others>>

\* summarize, from its call to its return
SummarizeConcrete ==
  /\ provider.method = "summarize"
  /\ provider.pc = "called"
  /\ \E outcome \in SummarizeOutcomes(provider.name, provider.use_llava) :
       LET r == summarize(provider.name, provider.use_llava,
                          provider.descriptions, outcome)
       IN  provider' =
             IF r.raised # None
               THEN [provider EXCEPT !.pc = "raised", !.raised = r.raised,
                                     !.events = <<outcome>>]
               ELSE [provider EXCEPT !.pc = "returned", !.summary = r.value,
                                     !.events = <<outcome>>]
  /\ UNCHANGED <<existing, others>>

InitProvider ==
  /\ existing \in SUBSET Paths
  /\ \E name \in ProviderNames, use_llava \in BOOLEAN, method \in Methods :
       /\ use_llava => name = "llava"
       /\ \/ /\ method = "describe_images_batch"
             /\ \E paths \in SeqsUpTo(Paths, MaxPaths) :
                  provider = ProviderCall(name, use_llava, method, paths, <<>>)
          \/ /\ method = "summarize"
             /\ \E descs \in SeqsUpTo({DescriptionText}, MaxPaths) :
                  provider = ProviderCall(name, use_llava, method, <<>>, descs)
  /\ NoObject
  /\ workflow = <<>>
  /\ concurrent = <<>>
  /\ path_status = <<>>
  /\ image_paths = <<>>
  /\ pc = "idle"
  /\ valid_paths = <<>>
  /\ invalid_paths = <<>>
  /\ batch_size = 0
  /\ i = 0
  /\ all_descriptions = <<>>
  /\ failed_images = <<>>
  /\ result = None
  /\ describer_calls = <<>>
  /\ describer_records = <<>>
  /\ summarizer_calls = <<>>
  /\ raised = None
  /\ NothingApart

NextProvider ==
  \/ DescribeImagesBatchStep
  \/ DescribeImagesBatchReturn
  \/ SummarizeConcrete

SpecProvider == InitProvider /\ [][NextProvider]_vars

\* ================================================================ the model managers
ManagerClasses == {"LLaVaModelManager", "FalconAIModelManager", "JINAModelManager"}
\* how many threads construct the manager
MaxThreads == 3
Threads == 1..MaxThreads
LLaVaModelName == "llava-hf/llava-v1.6-mistral-7b-hf"

\* the argument of the constructor: none for LLaVaModelManager (its model
\* is fixed), model_path for FalconAIModelManager, device for JINAModelManager
ManagerArgs(class) ==
  CASE class = "LLaVaModelManager" -> {LLaVaModelName}
    [] class = "FalconAIModelManager" -> {"model-path-a", "model-path-b"}
    [] OTHER -> {"cpu", "cuda"}

\* A class with its attributes _instance (0 is None) and _lock (0 is free),
\* the objects super().__new__ has made, the arguments initialize_model was
\* run with, and the threads calling the constructor.
ManagerClass(class, args) ==
  [class |-> class, instance |-> 0, lock |-> 0, instances |-> <<>>, loads |-> <<>>,
   threads |-> [t \in Threads |-> [pc |-> "new", arg |-> args[t], received |-> 0]]]

\* what this part leaves alone
rest == <<image_paths, existing, workflow, pc, locals, result, calls, raised,
          concurrent, path_status, object, provider, cli, loading>>

\* (mutation: the constructor does not take the lock)
AcquireLock_NoLock(t) ==
  /\ manager.threads[t].pc = "new"
  /\ manager' = [manager EXCEPT !.threads[t].pc = "locked"]
  /\ UNCHANGED rest

\* with cls._lock: the thread waits until the lock is free
AcquireLock(t) ==
  /\ manager.threads[t].pc = "new"
  /\ manager.lock = 0
  /\ manager' = [manager EXCEPT !.lock = t, !.threads[t].pc = "locked"]
  /\ UNCHANGED rest

\* if cls._instance is None: the object is made and bound to cls._instance
\* with model None, before initialize_model is called
CheckInstance(t) ==
  /\ manager.threads[t].pc = "locked"
  /\ manager' =
       IF manager.instance = 0
         THEN [manager EXCEPT !.instances = Append(@, [model |-> None]),
                              !.instance = Len(manager.instances) + 1,
                              !.threads[t].pc = "initialize"]
         ELSE [manager EXCEPT !.threads[t].pc = "return"]
  /\ UNCHANGED rest

\* initialize_model raises (the model cannot be loaded): the with block
\* releases the lock and the exception leaves the constructor;
\* cls._instance stays bound
InitializeRaises(t) ==
  /\ manager.threads[t].pc = "initialize"
  /\ manager' = [manager EXCEPT !.loads = Append(@, manager.threads[t].arg),
                                !.lock = IF @ = t THEN 0 ELSE @,
                                !.threads[t].pc = "raised"]
  /\ UNCHANGED rest

\* initialize_model loads the model into cls._instance
InitializeReturns(t) ==
  /\ manager.threads[t].pc = "initialize"
  /\ manager' = [manager EXCEPT !.loads = Append(@, manager.threads[t].arg),
                                !.instances[manager.instance].model = manager.threads[t].arg,
                                !.threads[t].pc = "return"]
  /\ UNCHANGED rest

\* return cls._instance, leaving the with block
ReturnInstance(t) ==
  /\ manager.threads[t].pc = "return"
  /\ manager' = [manager EXCEPT !.lock = IF @ = t THEN 0 ELSE @,
                                !.threads[t].pc = "done",
                                !.threads[t].received = manager.instance]
  /\ UNCHANGED rest

InitManager ==
  /\ \E class \in ManagerClasses :
       \E args \in [Threads -> ManagerArgs(class)] :
         manager = ManagerClass(class, args)
  /\ NoCall
  /\ NoObject
  /\ NoProviderCall
  /\ NoCli
  /\ NoLoading

NextManager ==
  \/ \E t \in Threads : AcquireLock(t)
  \/ \E t \in Threads : CheckInstance(t)
  \/ \E t \in Threads : InitializeRaises(t)
  \/ \E t \in Threads : InitializeReturns(t)
  \/ \E t \in Threads : ReturnInstance(t)

SpecManager == InitManager /\ [][NextManager]_vars

\* ================================================================ the command line
Formats == {"text", "json"}
ConfigFiles == {"missing", "invalid", "ok"}
\* the images of a run: at least one (nargs='+')
CliImages == SeqsUpTo(ConcurrentPaths, MaxConcurrentPaths) \ {<<>>}
\* the provider names of the runs followed, and the values of --provider
CliNames == {"bedrock", "openai", OtherName}
CliOverrides == {None, "bedrock", "openai"}
\* the configurations a file can hold, with at most one provider section
CliConfigs ==
  {c \in Configs :
     /\ c.default_provider \in CliNames
     /\ DOMAIN c.providers \subseteq CliNames
     /\ Cardinality(DOMAIN c.providers) <= 1
     /\ \A n \in DOMAIN c.providers : c.providers[n] = ProviderConfig("model-a", "model-a")}
\* the batch sizes of the runs followed
CliWorkflows == {<<>>, <<0>>, <<1>>}

\* the parsed arguments, where main() is, and the exit code once it returned
CliRun(format, override, output, file) ==
  [format |-> format, provider |-> override, output |-> output, config_file |-> file,
   pc |-> "start", exit_code |-> 0 - 1, write_failed |-> FALSE]

Exit(code) == [cli EXCEPT !.pc = "exited", !.exit_code = code]

\* load_config(args.config): FileNotFoundError for a missing file, another
\* exception for a file that cannot be made into a Config; then the
\* --provider override
CliLoadConfig ==
  /\ cli.pc = "start"
  /\ IF cli.config_file = "ok"
       THEN /\ cli' = [cli EXCEPT !.pc = "loaded"]
            /\ config' = IF cli.provider # None
                           THEN [config EXCEPT !.default_provider = cli.provider]
                           ELSE config
       ELSE /\ cli' = Exit(1)
            /\ UNCHANGED config
  /\ UNCHANGED <<image_paths, existing, workflow, pc, locals, result, calls, raised,
                 concurrent, path_status, ctor_fails, summarizer, info, reassigned,
                 provider, manager, loading>>

\* ImageSummarizer(config), get_info(), and the call of process_images; an
\* exception of the constructor is caught by except Exception
CliConstruct ==
  /\ cli.pc = "loaded"
  /\ summarizer' = NewImageSummarizer(config, ctor_fails)
  /\ IF summarizer'.constructed
       THEN /\ info' = <<get_info(summarizer', config, workflow)>>
            /\ cli' = [cli EXCEPT !.pc = "running"]
            /\ pc' = "start"
       ELSE /\ cli' = Exit(1)
            /\ UNCHANGED <<info, pc>>
  /\ UNCHANGED <<image_paths, existing, workflow, locals, result, calls, raised,
                 concurrent, path_status, config, ctor_fails, reassigned,
                 provider, manager, loading>>

\* The result is printed: the json branch prints every field and goes on,
\* the text branch returns 1 when error_message is set.
CliReport ==
  /\ cli.pc = "running"
  /\ pc = "done"
  /\ cli' = IF cli.format = "text" /\ result.error_message # None
              THEN Exit(1)
              ELSE [cli EXCEPT !.pc = "save"]
  /\ UNCHANGED <<image_paths, existing, workflow, pc, locals, result, calls, raised,
                 concurrent, path_status, object, provider, manager, loading>>

\* The results are written to args.output when it is given, and main
\* returns 0; an exception of the writing is caught and main returns 1.
CliSave ==
  /\ cli.pc = "save"
  /\ \E written \in BOOLEAN :
       /\ ~cli.output => written
       /\ cli' = IF written THEN Exit(0)
                            ELSE [Exit(1) EXCEPT !.write_failed = TRUE]
  /\ UNCHANGED <<image_paths, existing, workflow, pc, locals, result, calls, raised,
                 concurrent, path_status, object, provider, manager, loading>>

InitCli ==
  /\ \E format \in Formats, override \in CliOverrides,
        output \in BOOLEAN, file \in ConfigFiles :
       cli = CliRun(format, override, output, file)
  /\ config \in CliConfigs
  /\ ctor_fails \in {{}, {"text_summarizer"}}
  /\ summarizer = NoImageSummarizer(None, <<>>)
  /\ info = <<>>
  /\ reassigned = FALSE
  /\ image_paths \in CliImages
  /\ existing \in SUBSET ConcurrentPaths
  /\ workflow \in CliWorkflows
  /\ pc = "idle"
  /\ valid_paths = <<>>
  /\ invalid_paths = <<>>
  /\ batch_size = 0
  /\ i = 0
  /\ all_descriptions = <<>>
  /\ failed_images = <<>>
  /\ result = None
  /\ describer_calls = <<>>
  /\ describer_records = <<>>
  /\ summarizer_calls = <<>>
  /\ raised = None
  /\ concurrent = <<>>
  /\ path_status = <<>>
  /\ NoProviderCall
  /\ NoManager
  /\ NoLoading

NextCli ==
  \/ CliLoadConfig
  \/ CliConstruct
  \/ Next
  \/ CliReport
  \/ CliSave

SpecCli == InitCli /\ [][NextCli]_vars

\* ================================================================ load_config
\* Temperatures are counted in tenths: 7 is 0.7, MaxTemperature is 2.
MaxTemperature == 20
DefaultImageMaxTokens == 1000
DefaultTextMaxTokens == 500
DefaultImageTemperature == 7
DefaultLLaVAImageTemperature == 8
DefaultTextTemperature == 3

\* the order in which load_config looks for the provider sections
ProviderOrder == <<"bedrock", "azure_openai", "openai", "llava", "falcon">>
\* the sections the files followed may hold
FileProviders == {"bedrock", "llava"}
\* max_tokens and temperature of a model in the file; <<>> is a key that
\* is not there
FileMaxTokens == {<<>>, <<0 - 1>>, <<0>>, <<1>>}
FileTemperatures == {<<>>, <<0 - 1>>, <<0>>, <<MaxTemperature>>, <<MaxTemperature + 1>>}
FileModels ==
  {[max_tokens |-> <<1>>, temperature |-> t] : t \in FileTemperatures}
    \cup {[max_tokens |-> m, temperature |-> <<>>] : m \in FileMaxTokens}
FileSections == [image_model : FileModels, text_model : FileModels]
RawConfigs ==
  [default_provider : FileProviders,
   sections : UNION {[D -> FileSections] : D \in SUBSET FileProviders},
   image_provider : {None, "bedrock"},
   text_provider : {None, "llava"}]

\* dict.get(key, default)
Get(entry, default) == IF entry = <<>> THEN default ELSE entry[1]

\* (mutation: the bounds of the temperature are excluded)
NewModelConfig_Strict(model_name, max_tokens, temperature) ==
  IF max_tokens <= 0 THEN Raises("ValueError")
  ELSE IF ~(0 < temperature /\ temperature < MaxTemperature) THEN Raises("ValueError")
  ELSE Returns([model_name |-> model_name, max_tokens |-> max_tokens,
                temperature |-> temperature])

\* ModelConfig(...) with its __post_init__
NewModelConfig(model_name, max_tokens, temperature) ==
  IF max_tokens <= 0 THEN Raises("ValueError")
  ELSE IF ~(0 <= temperature /\ temperature <= MaxTemperature) THEN Raises("ValueError")
  ELSE Returns([model_name |-> model_name, max_tokens |-> max_tokens,
                temperature |-> temperature])

\* the two ModelConfig calls of a provider section, with the defaults of
\* its branch
ImageModelOf(name, section) ==
  NewModelConfig("model-a",
                 Get(section.image_model.max_tokens, DefaultImageMaxTokens),
                 Get(section.image_model.temperature,
                     IF name = "llava" THEN DefaultLLaVAImageTemperature
                                       ELSE DefaultImageTemperature))

TextModelOf(name, section) ==
  NewModelConfig("model-b",
                 Get(section.text_model.max_tokens, DefaultTextMaxTokens),
                 Get(section.text_model.temperature, DefaultTextTemperature))

\* the run of load_config: the file, the loop position, the providers built
LoadRun(raw) ==
  [raw |-> raw, pc |-> "loop", k |-> 1, providers |-> <<>>, models |-> <<>>]

\* what this part leaves alone
unloaded == <<image_paths, existing, workflow, pc, locals, result, calls, raised,
              concurrent, path_status, ctor_fails, info, reassigned, provider,
              manager, cli>>

\* One turn of the loop over the five names: a section that is there has
\* its image model and then its text model made; a ValueError of either
\* leaves load_config and the constructor that called it.
LoadProviderSection ==
  /\ loading.pc = "loop"
  /\ loading.k <= Len(ProviderOrder)
  /\ LET name == ProviderOrder[loading.k]
         section == loading.raw.sections[name]
     IN  IF name \notin DOMAIN loading.raw.sections
           THEN /\ loading' = [loading EXCEPT !.k = @ + 1]
                /\ UNCHANGED summarizer
         ELSE IF ImageModelOf(name, section).raised # None
                   \/ TextModelOf(name, section).raised # None
           THEN /\ loading' = [loading EXCEPT !.pc = "raised"]
                /\ summarizer' = NoImageSummarizer("ValueError", <<>>)
           ELSE /\ loading' =
                     [loading EXCEPT
                        !.k = @ + 1,
                        !.providers = Append(@, name),
                        !.models = Append(@, <<ImageModelOf(name, section).value,
                                               TextModelOf(name, section).value>>)]
                /\ UNCHANGED summarizer
  /\ UNCHANGED <<config, unloaded>>

\* the Config that load_config returns
LoadedConfig ==
  [default_provider |-> loading.raw.default_provider,
   providers |-> [n \in {loading.providers[j] : j \in DOMAIN loading.providers} |->
                    LET j == CHOOSE j \in DOMAIN loading.providers : loading.providers[j] = n
                    IN  ProviderConfig(loading.models[j][1].model_name,
                                       loading.models[j][2].model_name)],
   image_provider |-> loading.raw.image_provider,
   text_provider |-> loading.raw.text_provider]

\* load_config returns the Config, and the constructor that called it goes
\* on to the factory
LoadConfigReturn ==
  /\ loading.pc = "loop"
  /\ loading.k > Len(ProviderOrder)
  /\ loading' = [loading EXCEPT !.pc = "returned"]
  /\ config' = LoadedConfig
  /\ summarizer' = NewImageSummarizer(LoadedConfig, ctor_fails)
  /\ UNCHANGED unloaded

InitLoad ==
  /\ \E raw \in RawConfigs : loading = LoadRun(raw)
  /\ NoCall
  /\ config = None
  /\ ctor_fails = {}
  /\ summarizer = NoImageSummarizer(None, <<>>)
  /\ info = <<>>
  /\ reassigned = FALSE
  /\ NoProviderCall
  /\ NoManager
  /\ NoCli

NextLoad ==
  \/ LoadProviderSection
  \/ LoadConfigReturn
  \/ GetInfoCall

SpecLoad == InitLoad /\ [][NextLoad]_vars

\* ================================================================ process_images over a concrete provider
\* One process_images call whose describer and summarizer are a concrete
\* provider, on a file system where files are removed while the call runs:
\* the paths are validated once, and describe_image looks for each file
\* again when its turn comes.

\* a provider between calls
IdleProvider(name, use_llava) ==
  [ProviderCall(name, use_llava, "describe_images_batch", <<>>, <<>>)
     EXCEPT !.pc = "returned"]

\* what the steps of the call leave alone besides the call's own state
around == <<image_paths, workflow, concurrent, path_status, object, apart>>

\* Another process removes a file that passed validation, while the batch
\* loop runs.
RemoveFile ==
  /\ pc \in {"loop", "describing"}
  /\ \E p \in existing :
       /\ \E j \in DOMAIN valid_paths : valid_paths[j] = p
       /\ existing' = existing \ {p}
  /\ UNCHANGED <<around, provider, pc, locals, result, calls, raised>>

\* The loop delivers the next index: the batch is sliced and
\* describe_images_batch of the provider is entered.
ConcreteDescribeCall ==
  /\ pc = "loop"
  /\ RangeHas(i, Len(valid_paths), batch_size)
  /\ describer_calls' = Append(describer_calls, Batch(valid_paths, i, batch_size))
  /\ provider' = ProviderCall(provider.name, provider.use_llava,
                              "describe_images_batch",
                              Batch(valid_paths, i, batch_size), <<>>)
  /\ pc' = "describing"
  /\ UNCHANGED <<around, existing, locals, result, describer_records,
                 summarizer_calls, raised>>

\* (mutation: a record of a failure ends the call by the except branch)
ConcreteDescribeReturn_FailWhole ==
  /\ pc = "describing"
  /\ provider.method = "describe_images_batch"
  /\ provider.pc = "called"
  /\ Len(provider.events) = Len(provider.image_paths)
  /\ LET batch_results == provider.results IN
       /\ describer_records' = describer_records \o batch_results
       /\ IF FailedPathsOf(batch_results) # <<>>
            THEN /\ raised' = "describer"
                 /\ result' = ErrorResult(image_paths)
                 /\ pc' = "done"
                 /\ UNCHANGED <<all_descriptions, failed_images, i>>
            ELSE /\ all_descriptions' = all_descriptions \o Successes(batch_results)
                 /\ failed_images' = failed_images \o FailedPathsOf(batch_results)
                 /\ i' = i + batch_size
                 /\ pc' = "loop"
                 /\ UNCHANGED <<raised, result>>
  /\ provider' = [provider EXCEPT !.pc = "returned"]
  /\ UNCHANGED <<around, existing, valid_paths, invalid_paths, batch_size,
                 describer_calls, summarizer_calls>>

\* describe_images_batch returns its records; they are sorted into
\* all_descriptions and failed_images and the loop index advances.
ConcreteDescribeReturn ==
  /\ pc = "describing"
  /\ provider.method = "describe_images_batch"
  /\ provider.pc = "called"
  /\ Len(provider.events) = Len(provider.image_paths)
  /\ LET batch_results == provider.results IN
       /\ all_descriptions' = all_descriptions \o Successes(batch_results)
       /\ failed_images' = failed_images \o FailedPathsOf(batch_results)
       /\ describer_records' = describer_records \o batch_results
  /\ i' = i + batch_size
  /\ pc' = "loop"
  /\ provider' = [provider EXCEPT !.pc = "returned"]
  /\ UNCHANGED <<around, existing, valid_paths, invalid_paths, batch_size,
                 result, describer_calls, summarizer_calls, raised>>

\* (mutation: an error string of the summarizer is taken for a failure of
\* the whole call)
ConcreteSummarizeReturn_Discard ==
  /\ pc = "summarizing"
  /\ \E outcome \in SummarizeOutcomes(provider.name, provider.use_llava) :
       LET r == summarize(provider.name, provider.use_llava,
                          DescriptionTexts(all_descriptions), outcome)
       IN  /\ provider' = [provider EXCEPT !.method = "summarize", !.pc = "returned",
                                           !.summary = r.value, !.events = <<outcome>>]
           /\ IF r.value # <<>> /\ r.value[1] = SummaryErrorText
                THEN result' = ErrorResult(image_paths)
                ELSE result' = NormalResult(r.value, all_descriptions, image_paths,
                                            failed_images, batch_size)
  /\ pc' = "done"
  /\ UNCHANGED <<around, existing, locals, calls, raised>>

\* summarize of the provider, from its call to the result of
\* process_images: what it returns is the summary, what it raises goes to
\* the except branch.
ConcreteSummarizeReturn ==
  /\ pc = "summarizing"
  /\ \E outcome \in SummarizeOutcomes(provider.name, provider.use_llava) :
       LET r == summarize(provider.name, provider.use_llava,
                          DescriptionTexts(all_descriptions), outcome)
       IN  IF r.raised # None
             THEN /\ raised' = "summarizer"
                  /\ result' = ErrorResult(image_paths)
                  /\ provider' = [provider EXCEPT !.method = "summarize",
                                                  !.pc = "raised", !.raised = r.raised,
                                                  !.events = <<outcome>>]
             ELSE /\ result' = NormalResult(r.value, all_descriptions, image_paths,
                                            failed_images, batch_size)
                  /\ provider' = [provider EXCEPT !.method = "summarize",
                                                  !.pc = "returned", !.summary = r.value,
                                                  !.events = <<outcome>>]
                  /\ UNCHANGED raised
  /\ pc' = "done"
  /\ UNCHANGED <<around, existing, locals, calls>>

\* the lists the call is followed on: distinct files
DistinctLists ==
  {l \in SeqsUpTo(Paths, MaxPaths) :
     \A j, k \in DOMAIN l : j # k => l[j] # l[k]}

InitRemoval ==
  /\ image_paths \in DistinctLists
  /\ existing \in SUBSET Paths
  /\ workflow \in Workflows
  /\ \E name \in ProviderNames, use_llava \in BOOLEAN :
       /\ use_llava => name = "llava"
       /\ provider = IdleProvider(name, use_llava)
  /\ pc = "start"
  /\ valid_paths = <<>>
  /\ invalid_paths = <<>>
  /\ batch_size = 0
  /\ i = 0
  /\ all_descriptions = <<>>
  /\ failed_images = <<>>
  /\ result = None
  /\ describer_calls = <<>>
  /\ describer_records = <<>>
  /\ summarizer_calls = <<>>
  /\ raised = None
  /\ concurrent = <<>>
  /\ path_status = <<>>
  /\ NoObject
  /\ NothingApart

NextRemoval ==
  \/ ValidateNoneValid
  \/ ValidateSomeValid
  \/ RemoveFile
  \/ ConcreteDescribeCall
  \/ DescribeImagesBatchStep
  \/ ConcreteDescribeReturn
  \/ SummarizeCall
  \/ ReturnNoDescriptions
  \/ ConcreteSummarizeReturn

SpecRemoval == InitRemoval /\ [][NextRemoval]_vars

\* ================================================================ claims
\* ---------------------------------------------------------------- vocabulary
Returned == pc = "done"
AllExist == \A k \in 1..Len(image_paths) : image_paths[k] \in existing
NoneExist == \A k \in 1..Len(image_paths) : image_paths[k] \notin existing
SomeExist == \E k \in 1..Len(image_paths) : image_paths[k] \in existing
ProviderRaised == raised \in {"describer", "summarizer"}
AllRecordsSucceed == \A k \in 1..Len(describer_records) : describer_records[k].success
AllRecordsFail == \A k \in 1..Len(describer_records) : ~describer_records[k].success
PathsOf(ds) == [j \in 1..Len(ds) |-> ds[j].image_path]
ExistingInOrder == SelectSeq(image_paths, LAMBDA p : p \in existing)
MissingInOrder == SelectSeq(image_paths, LAMBDA p : p \notin existing)
ConfiguredBatchSize == IF workflow = <<>> THEN 3 ELSE workflow[1]

\* C1: for every non-empty input whose paths all exist, with a describer that
\* returns only success records and a summarizer that returns normally (no
\* exception anywhere in the call), the returned result has total_images = successful_descriptions = len(input), no failed
\* image, no error message, and descriptions in input order.
C1_AllSucceed ==
  (Returned /\ image_paths # <<>> /\ AllExist /\ raised = None /\ AllRecordsSucceed)
    => /\ result.total_images = Len(image_paths)
       /\ result.successful_descriptions = Len(image_paths)
       /\ result.failed_images = <<>>
       /\ result.error_message = None
       /\ PathsOf(result.descriptions) = image_paths

\* The same statement for a positive batch size.
C1_AllSucceedPositiveBatch == ConfiguredBatchSize >= 1 => C1_AllSucceed

\* C2: when no input path exists, the call returns the fixed "no valid
\* images" result with failed_images equal to the input list, and neither
\* the describer nor the summarizer is called.
C2_NoneExist ==
  /\ NoneExist => (describer_calls = <<>> /\ summarizer_calls = <<>>)
  /\ (Returned /\ NoneExist)
       => /\ result.summary = "No valid images found to process."
          /\ result.descriptions = <<>>
          /\ result.total_images = Len(image_paths)
          /\ result.successful_descriptions = 0
          /\ result.failed_images = image_paths
          /\ result.error_message = "No valid image files found"

C2_Witness ==
  /\ Returned /\ NoneExist /\ Len(image_paths) = 2
  /\ image_paths[1] # image_paths[2]
  /\ result.failed_images = image_paths

\* the C3 scenario: 3 input paths, 2 of them existing, batch_size = 1
C3_Scenario ==
  /\ Len(image_paths) = 3
  /\ Len(ExistingInOrder) = 2
  /\ workflow = <<1>>

C3_Outcome ==
  (Returned /\ raised = None /\ AllRecordsSucceed)
    => /\ \E k \in 1..Len(result.failed_images) :
            result.failed_images[k] = MissingInOrder[1]
       /\ PathsOf(result.descriptions) = ExistingInOrder

\* C3 as stated: with 2 existing and 1 nonexistent path and batch_size = 1,
\* three batches are issued to the describer one at a time; failed_images
\* has the nonexistent path and descriptions the 2 successes in input order.
C3_ThreeBatches ==
  C3_Scenario =>
    /\ (Returned /\ raised = None) => Len(describer_calls) = 3
    /\ C3_Outcome

\* C3 amended: with 2 existing and 1 nonexistent path and batch_size = 1,
\* two batches are issued to the describer, one per existing path in input
\* order, each only after the previous one returned; failed_images has the
\* nonexistent path and descriptions the 2 successes in input order.
C3_TwoBatches ==
  C3_Scenario =>
    /\ (Returned /\ raised = None) =>
          describer_calls = << <<ExistingInOrder[1]>>, <<ExistingInOrder[2]>> >>
    /\ Len(describer_calls) <= Len(describer_records) + 1
    /\ C3_Outcome

C3_Witness ==
  /\ C3_Scenario /\ Returned /\ raised = None /\ AllRecordsSucceed
  /\ Len(describer_calls) = 2
  /\ Len(result.descriptions) = 2
  /\ result.failed_images = MissingInOrder

\* C4 (batching law): with batch_size = k >= 1, n >= 1 valid paths and no
\* provider call raising, exactly ceil(n/k) batches are issued, each of k
\* paths except possibly the last (n mod k paths when that is non-zero), and
\* the batches concatenated in call order are the valid paths in input order.
C4_BatchingLaw ==
  LET k == ConfiguredBatchSize
      n == Len(ExistingInOrder)
      c == Len(describer_calls)
  IN (Returned /\ k >= 1 /\ n >= 1 /\ raised = None)
       => /\ c = (n + k - 1) \div k
          /\ \A b \in 1..(c - 1) : Len(describer_calls[b]) = k
          /\ Len(describer_calls[c]) = (IF n % k # 0 THEN n % k ELSE k)
          /\ Flatten(describer_calls) = ExistingInOrder

C4_Witness ==
  /\ Returned /\ raised = None
  /\ ConfiguredBatchSize = 2 /\ Len(ExistingInOrder) = 3
  /\ Len(describer_calls) = 2
  /\ Len(describer_calls[2]) = 1

\* C5: whenever an exception is raised inside the call (by the describer on
\* any batch, or by the summarizer), the call still returns: summary "", no
\* descriptions, successful_descriptions 0, failed_images the whole input
\* list and error_message set, whatever earlier batches produced; and no
\* describer or summarizer call follows the raising one.
C5_ExceptionResult ==
  /\ [](raised # None =>
          /\ Returned
          /\ result.summary = ""
          /\ result.descriptions = <<>>
          /\ result.successful_descriptions = 0
          /\ result.failed_images = image_paths
          /\ result.error_message # None)
  /\ [][raised # None => UNCHANGED <<describer_calls, summarizer_calls>>]_vars

C5_Witness ==
  /\ Returned /\ raised = "describer"
  /\ all_descriptions # <<>>
  /\ Len(describer_calls) = 2
  /\ result.descriptions = <<>>
  /\ result.failed_images = image_paths

\* C6: if the describer returned records for every batch and all of them are
\* failures, summarize is never invoked and the summary is the fixed "no
\* images could be processed" message; and summarize is never called with
\* an empty list of descriptions.
C6_AllFailed ==
  /\ (Returned /\ raised = None /\ describer_records # <<>> /\ AllRecordsFail)
       => /\ summarizer_calls = <<>>
          /\ result.summary = "No images could be processed successfully."
  /\ \A k \in 1..Len(summarizer_calls) : summarizer_calls[k] # <<>>

C6_Witness ==
  /\ Returned /\ raised = None /\ AllRecordsFail
  /\ Len(describer_records) = 3 /\ Len(describer_calls) = 2
  /\ summarizer_calls = <<>>
  /\ result.summary = NoSuccessSummary

\* C7: in every returned result successful_descriptions = len(descriptions)
\* and every element of descriptions is a success record; a failure record
\* never appears in descriptions, only its path in failed_images.
C7_OnlySuccesses ==
  Returned =>
    /\ result.successful_descriptions = Len(result.descriptions)
    /\ \A k \in 1..Len(result.descriptions) : result.descriptions[k].success
    /\ \A k \in 1..Len(describer_records) :
         ~describer_records[k].success =>
           /\ \A j \in 1..Len(result.descriptions) :
                result.descriptions[j] # describer_records[k]
           /\ \E j \in 1..Len(result.failed_images) :
                result.failed_images[j] = describer_records[k].image_path

C7_Witness ==
  /\ Returned /\ raised = None
  /\ Len(result.descriptions) = 2
  /\ \E k \in 1..Len(describer_records) : ~describer_records[k].success

\* C8: in every result returned without an exception,
\* total_images = successful_descriptions + len(failed_images), total_images
\* being the length of the input list.
C8_TotalIsSum ==
  (Returned /\ raised = None)
    => /\ result.total_images = Len(image_paths)
       /\ result.total_images =
            result.successful_descriptions + Len(result.failed_images)

\* The same statement for a positive batch size.
C8_TotalIsSumPositiveBatch == ConfiguredBatchSize >= 1 => C8_TotalIsSum

\* C9: in the normal result, failed_images is the nonexistent input paths in
\* input order followed by the paths of the failure records in the order
\* the describer returned them.
C9_FailedOrder ==
  (Returned /\ raised = None /\ SomeExist)
    => result.failed_images =
         MissingInOrder \o PathsOf(SelectSeq(describer_records, LAMBDA r : ~r.success))

C9_Witness ==
  /\ Returned /\ raised = None
  /\ Len(image_paths) = 3 /\ Len(MissingInOrder) = 1
  /\ image_paths[3] \notin existing
  /\ Len(describer_calls) = 2
  /\ AllRecordsFail
  /\ result.failed_images = <<image_paths[3], image_paths[1], image_paths[2]>>

\* C10 as stated: error_message is set exactly when no path was valid or an
\* exception was raised; whenever some path exists and no provider call
\* raises, error_message is None.
C10_ErrorMessageProviders ==
  Returned =>
    /\ (result.error_message # None) <=> (~SomeExist \/ raised # None)
    /\ (SomeExist /\ ~ProviderRaised) => result.error_message = None

\* C10 amended: error_message is set exactly when no path was valid or an
\* exception was raised inside the call, by a provider or by the batch loop
\* itself; whenever some path exists and no exception is raised,
\* error_message is None however many images failed.
C10_ErrorMessage ==
  Returned =>
    /\ (result.error_message # None) <=> (~SomeExist \/ raised # None)
    /\ (SomeExist /\ raised = None) => result.error_message = None

C10_Witness ==
  /\ Returned /\ SomeExist /\ raised = None
  /\ describer_records # <<>> /\ AllRecordsFail
  /\ result.error_message = None

\* ---------------------------------------------------------------- C11..C13
SomeRecordSucceeded == \E k \in 1..Len(describer_records) : describer_records[k].success
IsPrefix(s, t) == Len(s) <= Len(t) /\ s = SubSeq(t, 1, Len(s))

\* C11 as stated: no call in which some describer record succeeded returns
\* an empty summary.
C11_NoEmptyAfterSuccess ==
  (Returned /\ SomeRecordSucceeded) => result.summary # ""

\* C11 amended: the summary is empty only when an exception was raised
\* inside the call (then it is always empty, also after successful
\* descriptions) or when the summarizer itself returned an empty text; the
\* short-circuit and the no-success result carry their fixed messages.
C11_EmptySummary ==
  Returned =>
    /\ raised # None => result.summary = ""
    /\ result.summary = "" =>
         \/ raised # None
         \/ (summarizer_calls # <<>> /\ SomeRecordSucceeded)

C11_Witness ==
  /\ Returned /\ raised = "summarizer"
  /\ SomeRecordSucceeded
  /\ result.summary = ""

\* C12: a describer call starts only when every earlier describer call has
\* returned, summarize starts only after the describer call of the last
\* batch has returned, and no describer call follows the start of summarize.
C12_Sequential ==
  [][ /\ describer_calls' # describer_calls =>
           /\ pc # "describing"
           /\ Len(describer_records) = Len(Flatten(describer_calls))
           /\ summarizer_calls = <<>>
           /\ Len(describer_calls') = Len(describer_calls) + 1
      /\ summarizer_calls' # summarizer_calls =>
           /\ pc # "describing"
           /\ Len(describer_records) = Len(Flatten(describer_calls))
           /\ Flatten(describer_calls) = ExistingInOrder
      /\ summarizer_calls # <<>> => describer_calls' = describer_calls
    ]_vars

C12_Witness ==
  /\ pc = "summarizing"
  /\ Len(describer_calls) = 2
  /\ Len(describer_records) = 3

\* C13 as stated: every valid path is passed to the describer in at most
\* one batch call, and summarize is called at most once.
C13_PathInOneCall ==
  /\ \A p \in Paths :
       Cardinality({b \in 1..Len(describer_calls) :
                      \E j \in 1..Len(describer_calls[b]) : describer_calls[b][j] = p}) <= 1
  /\ Len(summarizer_calls) <= 1

\* C13 amended: no retry.  Every entry of the input list that names an
\* existing file is passed to the describer at most once, in input order (a
\* path listed twice is described once per occurrence), an entry whose record
\* is a failure is never resubmitted, and summarize is called at most once,
\* whatever the providers return or raise.
C13_NoRetry ==
  /\ IsPrefix(Flatten(describer_calls), ExistingInOrder)
  /\ Len(summarizer_calls) <= 1

C13_Witness ==
  /\ Returned
  /\ Len(describer_calls) = 3
  /\ Len(describer_records) = 3
  /\ ~describer_records[1].success
  /\ describer_records[3].success
  /\ Len(summarizer_calls) = 1

\* ---------------------------------------------------------------- C14
\* C14: two calls interleaved at every await point on one instance, with
\* stateless deterministic providers, each return the result they return
\* when run alone.
C14_Independent ==
  \A c \in DOMAIN concurrent :
    concurrent[c].pc = "done" =>
      concurrent[c].result = RunAlone(StartFrame(concurrent[c].image_paths))

C14_Witness ==
  /\ \A c \in ConcurrentCalls : concurrent[c].pc = "done" /\ concurrent[c].overlapped
  /\ concurrent[1].image_paths # concurrent[2].image_paths
  /\ Len(concurrent[1].result.descriptions) = 1
  /\ Len(concurrent[1].result.failed_images) = 1
  /\ Len(concurrent[2].result.descriptions) = 2

\* ---------------------------------------------------------------- C15
ConstructionEnded == summarizer.constructed \/ summarizer.raised # None
ConstructionFailed == ~summarizer.constructed /\ summarizer.raised # None

\* C15: constructing an ImageSummarizer whose provider name is outside the
\* closed set fails with an error before any concrete constructor is
\* entered, and leaves no object; an error of a concrete constructor ends
\* the construction too; so an object that exists was built for a name of
\* the closed set and holds both the describer and the summarizer of that
\* provider.
C15_ConstructionFails ==
  ConstructionEnded =>
    /\ config.default_provider \notin ProviderNames =>
         /\ ConstructionFailed
         /\ summarizer.raised \in {"KeyError", "ValueError"}
         /\ summarizer.constructor_calls = <<>>
    /\ (/\ ~summarizer.constructed
        /\ config.default_provider \in ProviderNames \cap DOMAIN config.providers) =>
         /\ ctor_fails # {}
         /\ summarizer.raised = "ProviderError"
    /\ summarizer.constructed =>
         /\ ctor_fails = {}
         /\ summarizer.raised = None
         /\ summarizer.provider_name \in ProviderNames
         /\ summarizer.image_describer.made = summarizer.provider_name
         /\ summarizer.text_summarizer.made = summarizer.provider_name

\* a construction for a configured name outside the closed set has failed
C15_Witness ==
  /\ ConstructionFailed
  /\ config.default_provider \notin ProviderNames
  /\ config.default_provider \in DOMAIN config.providers
  /\ summarizer.raised = "ValueError"

\* ---------------------------------------------------------------- C16
\* the record is the one of the try block
NonError(r) == "error" \notin DOMAIN r

\* the entry of the provider the object was constructed for
ActiveEntry == config.providers[config.default_provider]

\* C16: every record get_info returns has provider equal to the configured
\* default provider; as long as the object is as its constructor left it,
\* single_provider is true and models_shared and memory_efficient are true
\* exactly when the two models of the provider have the same identifier;
\* and in every non-error record memory_efficient is the conjunction of
\* single_provider and models_shared.
C16_Flags ==
  [][GetInfoCall =>
       LET r == info'[1] IN
         /\ r.provider = config.default_provider
         /\ NonError(r) =>
              r.optimization.memory_efficient =
                (r.optimization.single_provider /\ r.optimization.models_shared)
         /\ ~reassigned =>
              /\ NonError(r)
              /\ r.optimization.single_provider
              /\ ActiveEntry.image_model = ActiveEntry.text_model =>
                   /\ r.optimization.models_shared
                   /\ r.optimization.memory_efficient
              /\ ActiveEntry.image_model # ActiveEntry.text_model =>
                   /\ ~r.optimization.models_shared
                   /\ ~r.optimization.memory_efficient]_vars

\* get_info has answered for a provider whose two models differ
C16_Witness ==
  /\ info # <<>>
  /\ ~reassigned
  /\ ActiveEntry.image_model # ActiveEntry.text_model
  /\ NonError(info[1])
  /\ info[1].optimization.single_provider
  /\ ~info[1].optimization.models_shared

\* ---------------------------------------------------------------- C17
\* C17: get_info does not raise when a lookup of its try block fails (a
\* provider name without an entry in config.providers, a model that is
\* not there): it returns a record with an error field and the placeholder
\* for both models; and a record without an error field carries the model
\* identifiers configured for the providers it names.
C17_NoRaise ==
  [][GetInfoCall =>
       LET r == info'[1] IN
         /\ "raised" \notin DOMAIN r
         /\ LookupFails(summarizer, config) =>
              /\ ~NonError(r)
              /\ r.image_model = ConfigurationError
              /\ r.text_model = ConfigurationError
         /\ NonError(r) =>
              /\ r.image_provider \in DOMAIN config.providers
              /\ r.text_provider \in DOMAIN config.providers
              /\ r.image_model \in ModelNames
              /\ r.text_model \in ModelNames
              /\ r.image_model = config.providers[r.image_provider].image_model
              /\ r.text_model = config.providers[r.text_provider].text_model]_vars

\* get_info has answered after the entry of the active provider was removed
C17_Witness ==
  /\ info # <<>>
  /\ summarizer.constructed
  /\ summarizer.provider_name \notin DOMAIN config.providers
  /\ ~NonError(info[1])
  /\ info[1].image_model = ConfigurationError

\* ---------------------------------------------------------------- C18
BatchReturned ==
  provider.method = "describe_images_batch" /\ provider.pc = "returned"

\* C18: what describe_images_batch of a concrete describer returns has one
\* record per path it was given, the j-th record carrying the j-th path,
\* whichever images succeeded or failed.
C18_OneRecordPerPath ==
  BatchReturned =>
    /\ Len(provider.results) = Len(provider.image_paths)
    /\ \A j \in 1..Len(provider.image_paths) :
         provider.results[j].image_path = provider.image_paths[j]

\* a batch of three different paths has returned with a failure between two
\* successes
C18_Witness ==
  /\ BatchReturned
  /\ Len(provider.image_paths) = 3
  /\ provider.image_paths[1] # provider.image_paths[2]
  /\ provider.image_paths[2] # provider.image_paths[3]
  /\ Len(provider.results) = 3
  /\ provider.results[1].success
  /\ ~provider.results[2].success
  /\ provider.results[3].success

\* ---------------------------------------------------------------- C19
FailingEvents == {"missing", "exception", "client_error"}

\* C19: describe_image of a concrete describer does not raise when the file
\* is missing or the API or model call fails: the record it returns has
\* success false; and every returned record has an error_message exactly
\* when success is false, and an empty description when success is false.
C19_FailSoft ==
  provider.method = "describe_images_batch" =>
    /\ provider.pc # "raised"
    /\ provider.raised = None
    /\ \A j \in DOMAIN provider.results :
         LET r == provider.results[j] IN
           /\ provider.events[j] \in FailingEvents => ~r.success
           /\ (r.error_message # None) <=> ~r.success
           /\ ~r.success => r.description = ""

\* a call has returned a record for a missing file and a record for a
\* failed API call
C19_Witness ==
  /\ BatchReturned
  /\ \E j, k \in DOMAIN provider.results :
       /\ provider.events[j] = "missing"
       /\ provider.events[k] \in {"exception", "client_error"}
       /\ ~provider.results[j].success
       /\ ~provider.results[k].success
       /\ provider.results[k].error_message # None

\* ---------------------------------------------------------------- C20
SummarizeEnded ==
  provider.method = "summarize" /\ provider.pc \in {"returned", "raised"}

\* the text begins with the piece
BeginsWith(text, piece) == Len(text) >= 1 /\ text[1] = piece

InConstructor(t) == manager.threads[t].pc \in {"locked", "initialize", "return"}
Received(t) == manager.threads[t].pc = "done"

\* C21: for each model manager class and every interleaving of the threads
\* constructing it, initialize_model is run at most once; while one thread
\* is inside the constructor, which includes the whole run of
\* initialize_model, every other thread is waiting before it or has left
\* it; every thread the constructor returns to receives the one instance;
\* and a construction with another argument returns it as it was loaded.
C21_Singleton ==
  /\ Len(manager.loads) <= 1
  /\ Len(manager.instances) <= 1
  /\ \A t \in Threads :
       InConstructor(t) => \A u \in Threads \ {t} : ~InConstructor(u)
  /\ \A t \in Threads :
       Received(t) =>
         /\ manager.threads[t].received = 1
         /\ manager.instance = 1
         /\ manager.instances[1].model \in {None, manager.loads[1]}

\* two threads with different arguments have both received the instance,
\* loaded once with the first one's argument
C21_Witness ==
  /\ \E t, u \in Threads :
       /\ Received(t)
       /\ Received(u)
       /\ manager.threads[t].arg # manager.threads[u].arg
       /\ manager.threads[t].received = manager.threads[u].received
       /\ manager.loads = <<manager.threads[t].arg>>
       /\ manager.instances[1].model = manager.threads[t].arg

\* ---------------------------------------------------------------- C25
\* C25: an instance a constructor call has returned has its model loaded,
\* even when initialize_model raised during the first construction.
C25_ModelLoaded ==
  \A t \in Threads :
    Received(t) => manager.instances[manager.threads[t].received].model # None

\* ---------------------------------------------------------------- C22
Exited == cli.pc = "exited"

\* C22: main() returns 1 when the configuration file is not found, when
\* the construction of the ImageSummarizer fails and when the result of
\* process_images has error_message set, and 0 when the result reports at
\* least one description (and the results could be written), with
\* --format text as with --format json.
C22_ExitCodes ==
  Exited =>
    /\ cli.exit_code \in {0, 1}
    /\ cli.config_file = "missing" => cli.exit_code = 1
    /\ ConstructionFailed => cli.exit_code = 1
    /\ (pc = "done" /\ result.error_message # None) => cli.exit_code = 1
    /\ (pc = "done" /\ result.successful_descriptions > 0 /\ ~cli.write_failed) =>
         cli.exit_code = 0

\* ---------------------------------------------------------------- C23
\* the settings of a model in the file are acceptable: a key that is not
\* there takes an acceptable default
ValidSetting(m) ==
  /\ m.max_tokens = <<>> \/ m.max_tokens[1] > 0
  /\ m.temperature = <<>> \/ (0 <= m.temperature[1] /\ m.temperature[1] <= MaxTemperature)

AllSectionsValid ==
  \A n \in DOMAIN loading.raw.sections :
    /\ ValidSetting(loading.raw.sections[n].image_model)
    /\ ValidSetting(loading.raw.sections[n].text_model)

\* C23: a ModelConfig exists only with max_tokens > 0 and a temperature
\* from 0 to 2, both bounds included, and with such values it is always
\* made; so load_config raises exactly when some provider section of the
\* file has an image or text model with other values, and then the
\* ImageSummarizer that called it is not constructed.
C23_Validation ==
  /\ \A j \in DOMAIN loading.models : \A r \in 1..2 :
       /\ loading.models[j][r].max_tokens > 0
       /\ 0 <= loading.models[j][r].temperature
       /\ loading.models[j][r].temperature <= MaxTemperature
  /\ loading.pc = "raised" =>
       /\ ~AllSectionsValid
       /\ ConstructionFailed
       /\ summarizer.raised = "ValueError"
  /\ loading.pc = "returned" =>
       /\ AllSectionsValid
       /\ DOMAIN config.providers = DOMAIN loading.raw.sections

\* a file whose second section has an invalid text model made load_config
\* raise after the first section was accepted with both bounds of the
\* temperature
C23_Witness ==
  /\ loading.pc = "raised"
  /\ loading.providers = <<"bedrock">>
  /\ loading.raw.sections["bedrock"].image_model.temperature = <<MaxTemperature>>
  /\ loading.raw.sections["bedrock"].text_model.temperature = <<0>>
  /\ ValidSetting(loading.raw.sections["llava"].image_model)
  /\ ~ValidSetting(loading.raw.sections["llava"].text_model)
  /\ loading.raw.default_provider = "bedrock"

\* ---------------------------------------------------------------- C24
\* C24: whatever integer workflow.batch_size is, a call with at least one
\* valid path either has passed every valid path to the describer exactly
\* once, or returns a result with error_message set; and a result without
\* error_message has every valid path among its descriptions or its
\* failed_images.
C24_NoSilentDrop ==
  (Returned /\ ExistingInOrder # <<>>) =>
    /\ \/ Flatten(describer_calls) = ExistingInOrder
       \/ result.error_message # None
    /\ result.error_message = None =>
         \A j \in DOMAIN ExistingInOrder :
           \/ \E d \in DOMAIN result.descriptions :
                result.descriptions[d].image_path = ExistingInOrder[j]
           \/ \E f \in DOMAIN result.failed_images :
                result.failed_images[f] = ExistingInOrder[j]

\* ---------------------------------------------------------------- C26
\* the records of paths that passed validation and were gone when
\* describe_image looked for them
RemovedRecords ==
  {k \in DOMAIN describer_records :
     describer_records[k].error_message = FileNotFoundText}

\* C26: when a file that existed at validation is gone by the time its
\* batch is described, the call still returns a normal result: the
\* provider's failure record puts the path into failed_images after the
\* paths found nonexistent at validation, error_message is None, and
\* total_images = successful_descriptions + len(failed_images).
C26_RemovedFile ==
  (Returned /\ RemovedRecords # {}) =>
    /\ raised = None
    /\ result.error_message = None
    /\ result.failed_images = invalid_paths \o FailedPathsOf(describer_records)
    /\ \A k \in RemovedRecords :
         \E f \in DOMAIN result.failed_images :
           /\ f > Len(invalid_paths)
           /\ result.failed_images[f] = describer_records[k].image_path
    /\ result.total_images =
         result.successful_descriptions + Len(result.failed_images)

\* a file is removed after validation, next to a path that was missing at
\* validation and a path that is described
C26_Witness ==
  /\ Returned
  /\ RemovedRecords # {}
  /\ invalid_paths # <<>>
  /\ result.successful_descriptions > 0
  /\ result.error_message = None

\* ---------------------------------------------------------------- C27
\* summarize has returned a string that reports its own failure
SoftFailure ==
  /\ Returned
  /\ provider.method = "summarize"
  /\ provider.pc = "returned"
  /\ BeginsWith(provider.summary, SummaryErrorText)

\* C27: when the summarizer returns its error string instead of raising,
\* process_images returns that string as summary with error_message None,
\* and descriptions, successful_descriptions and failed_images are what the
\* describe step accumulated: no successful description is discarded.
C27_SoftFailure ==
  SoftFailure =>
    /\ result.error_message = None
    /\ result.summary = provider.summary
    /\ result.descriptions = Successes(describer_records)
    /\ result.descriptions # <<>>
    /\ result.successful_descriptions = Len(Successes(describer_records))
    /\ result.failed_images = invalid_paths \o FailedPathsOf(describer_records)

\* the summarizer fails softly after a describe step with successes and
\* failures
C27_Witness ==
  /\ SoftFailure
  /\ Len(result.descriptions) >= 2
  /\ FailedPathsOf(describer_records) # <<>>

\* ---------------------------------------------------------------- C28
\* the file names a provider of its own for images or for text, other than
\* the default provider
SplitConfigured ==
  \/ config.image_provider \notin {None, config.default_provider}
  \/ config.text_provider \notin {None, config.default_provider}

\* C28: the describer and the summarizer of an ImageSummarizer are both
\* those of config.default_provider, whatever Config.image_provider and
\* Config.text_provider say, and get_info on the object as constructed
\* reports image_provider = text_provider = provider with single_provider
\* true in every non-error record.
C28_DefaultProviderOnly ==
  summarizer.constructed =>
    /\ summarizer.image_describer.made = config.default_provider
    /\ summarizer.text_summarizer.made = config.default_provider
    /\ info # <<>> =>
         (NonError(info[1]) =>
            /\ info[1].provider = config.default_provider
            /\ info[1].image_provider = info[1].provider
            /\ info[1].text_provider = info[1].provider
            /\ info[1].optimization.single_provider)

\* get_info has answered without error on an object whose configuration
\* names another provider for one of the two roles
C28_Witness ==
  /\ summarizer.constructed
  /\ info # <<>>
  /\ NonError(info[1])
  /\ SplitConfigured
  /\ config.image_provider \in DOMAIN config.providers
  /\ config.text_provider \in DOMAIN config.providers

\* ---------------------------------------------------------------- C29
\* ceil(n / batch_size) for the n valid paths of the call
MaxDescriberCalls ==
  (Len(ValidPaths(image_paths, existing)) + ConfiguredBatchSize - 1)
    \div ConfiguredBatchSize

\* the calls made so far are within the bounds
CallsWithinBounds ==
  /\ Len(describer_calls) <= MaxDescriberCalls
  /\ Len(summarizer_calls) <= 1

\* C29: with batch_size >= 1 and describer and summarizer calls that
\* return or raise, process_images returns, its result is built once and
\* stays, and it makes at most ceil(n / batch_size) describer calls and at
\* most one summarize call, n being the number of valid paths.
C29_Terminates ==
  /\ (ConfiguredBatchSize >= 1) ~> Returned
  /\ [](ConfiguredBatchSize >= 1 => CallsWithinBounds)
  /\ [][pc = "done" => (pc' = "done" /\ result' = result)]_vars

\* a call that needed two batches and one summary has returned
C29_Witness ==
  /\ Returned
  /\ ConfiguredBatchSize >= 2
  /\ Len(describer_calls) >= 2
  /\ Len(describer_calls) = MaxDescriberCalls
  /\ Len(summarizer_calls) = 1

\* ---------------------------------------------------------------- C30
\* C30: process_images([]) takes the empty-valid short-circuit: no
\* describer call, no summarizer call, and the result has total_images 0,
\* successful_descriptions 0, no descriptions, no failed images, the
\* summary "No valid images found to process." and the error_message
\* "No valid image files found".
C30_EmptyList ==
  (Returned /\ image_paths = <<>>) =>
    /\ describer_calls = <<>>
    /\ summarizer_calls = <<>>
    /\ raised = None
    /\ result.total_images = 0
    /\ result.successful_descriptions = 0
    /\ result.descriptions = <<>>
    /\ result.failed_images = <<>>
    /\ result.summary = NoValidSummary
    /\ result.error_message = NoValidError

\* the call on the empty list has returned, with files on the disk and any
\* batch_size configured
C30_Witness ==
  /\ Returned
  /\ image_paths = <<>>
  /\ existing # {}
  /\ workflow # <<>>

====
